---- MODULE Spec2Model ----
(***************************************************************************)
(* Model of the creator-growth-lab analytics pipeline                      *)
(* (src/Python/cgl_api).                                                   *)
(*                                                                         *)
(* Two state machines share this module:                                   *)
(*   Spec      - one run of AnalyticsService.run_channel_analysis          *)
(*   SpecModel - one call of ModelService.train_and_explain                *)
(*                                                                         *)
(* Numbers.  Floats are modelled exactly:                                  *)
(*   - views_per_day, baseline, relative_performance are rationals         *)
(*     <<num, den>> with den > 0;                                          *)
(*   - timestamps are whole hours since an epoch (UTC);                    *)
(*   - rounded quantities are integers in the unit of the rounding.        *)
(***************************************************************************)
EXTENDS Integers, Sequences, FiniteSets, TLC

\* ------------------------------------------------------------------------
\* Bounds of the model
\* ------------------------------------------------------------------------
MaxVideos == 6

\* ------------------------------------------------------------------------
\* Program constants
\* ------------------------------------------------------------------------
MinWindow == 5
TrendCap == 30
HoursPerDay == 24
NowT == 960

\* ------------------------------------------------------------------------
\* Rational arithmetic (floats of the pipeline)
\* ------------------------------------------------------------------------
Rat(n, d) == <<n, d>>
RatZero == <<0, 1>>
RatOne == <<1, 1>>
RatEq(a, b) == a[1] * b[2] = b[1] * a[2]
RatLt(a, b) == a[1] * b[2] < b[1] * a[2]
RatLe(a, b) == a[1] * b[2] <= b[1] * a[2]
RatPos(a) == a[1] > 0
RatIsZero(a) == a[1] = 0
RatAdd(a, b) == <<a[1] * b[2] + b[1] * a[2], a[2] * b[2]>>
\* a / b for b > 0
RatDiv(a, b) == <<a[1] * b[2], a[2] * b[1]>>
RatHalf(a) == <<a[1], 2 * a[2]>>

\* round-half-even of n/d (d > 0, n >= 0) to an integer
RoundHalfEven(n, d) ==
    LET q == n \div d
        r == n % d
    IN  IF 2 * r < d THEN q
        ELSE IF 2 * r > d THEN q + 1
        ELSE IF q % 2 = 0 THEN q ELSE q + 1

\* round(x, 3) of a non-negative rational, in thousandths
Round3(a) == RoundHalfEven(a[1] * 1000, a[2])

\* ------------------------------------------------------------------------
\* Sorting helpers (Python's sorted is stable)
\* ------------------------------------------------------------------------
RECURSIVE InsertAscRat(_, _)
InsertAscRat(s, x) ==
    IF s = <<>> THEN <<x>>
    ELSE IF RatLe(Head(s), x)
         THEN <<Head(s)>> \o InsertAscRat(Tail(s), x)
         ELSE <<x>> \o s

RECURSIVE SortAscRat(_)
SortAscRat(s) ==
    IF s = <<>> THEN <<>>
    ELSE InsertAscRat(SortAscRat(SubSeq(s, 1, Len(s) - 1)), s[Len(s)])

Min2(a, b) == IF a < b THEN a ELSE b
Max2(a, b) == IF a > b THEN a ELSE b

RECURSIVE IntSum(_)
IntSum(s) == IF s = <<>> THEN 0 ELSE Head(s) + IntSum(Tail(s))

\* ------------------------------------------------------------------------
\* FeatureService
\* ------------------------------------------------------------------------
\* numeric_rates: rates rounded to 8 decimals, in units of 1e-8
RateUnit == 100000000

\* mutant: the inputs are not clamped to non-negative
numeric_rates_NoClamp(views, likes, comments) ==
    IF views <= 0
    THEN [engagement_rate |-> 0, likes_rate |-> 0, comments_rate |-> 0]
    ELSE [engagement_rate |->
              IF likes + comments >= 0
              THEN RoundHalfEven((likes + comments) * RateUnit, views)
              ELSE -RoundHalfEven(-(likes + comments) * RateUnit, views),
          likes_rate |->
              IF likes >= 0 THEN RoundHalfEven(likes * RateUnit, views)
              ELSE -RoundHalfEven(-likes * RateUnit, views),
          comments_rate |->
              IF comments >= 0 THEN RoundHalfEven(comments * RateUnit, views)
              ELSE -RoundHalfEven(-comments * RateUnit, views)]

numeric_rates(views, likes, comments) ==
    LET v == Max2(views, 0)
        l == Max2(likes, 0)
        c == Max2(comments, 0)
    IN  IF v <= 0
        THEN [engagement_rate |-> 0, likes_rate |-> 0, comments_rate |-> 0]
        ELSE [engagement_rate |-> RoundHalfEven((l + c) * RateUnit, v),
              likes_rate      |-> RoundHalfEven(l * RateUnit, v),
              comments_rate   |-> RoundHalfEven(c * RateUnit, v)]

\* time_features: hour, weekday (hour 0 of the epoch is a Monday 00:00) and
\* weekend flag of the datetime as given
time_features(published_at) ==
    LET dow == (published_at \div HoursPerDay) % 7
    IN  [publish_hour        |-> published_at % HoursPerDay,
         publish_day_of_week |-> dow,
         is_weekend          |-> dow >= 5]

\* ------------------------------------------------------------------------
\* Inputs of a run: what YouTubeService.get_videos_details can return
\* ------------------------------------------------------------------------
\* kinds of video the channel may hold: views, likes, comments, publish hour
VideoKinds ==
    { [views |-> 0,   likes |-> 0, comments |-> 0, published_at |-> 950],
      [views |-> 10,  likes |-> 3, comments |-> 0, published_at |-> 930],
      [views |-> 40,  likes |-> 4, comments |-> 2, published_at |-> 900],
      [views |-> 600, likes |-> 7, comments |-> 7, published_at |-> 460] }

RawRow(i, k) ==
    [video_id |-> i, views |-> k.views, likes |-> k.likes,
     comments |-> k.comments, published_at |-> k.published_at]

\* get_videos_details: {} for an empty id list, else one parsed row per id
DetailSets ==
    UNION { { [i \in 1..n |-> RawRow(i, f[i])] : f \in [1..n -> VideoKinds] }
            : n \in 0..MaxVideos }

\* req.baseline_window is in 5..100 and acts only through
\* min(baseline_window, n): the smallest value, and one that covers every
\* record
BaselineWindows == {MinWindow, MaxVideos}

\* ------------------------------------------------------------------------
\* AnalyticsResponse schema (schemas/response.py)
\* ------------------------------------------------------------------------
ResponseRequired == {"meta", "channel", "kpis"}
ResponseOptional == {"trends", "drivers", "recommendations", "warnings",
                     "topics", "topic_assignments", "topic_insights"}
\* keyword arguments run_channel_analysis passes to AnalyticsResponse(...)
ResponsePassed == {"meta", "kpis", "trends", "drivers", "recommendations",
                   "warnings"}

DummyDrivers ==
    << [feature |-> "title_word_count", effect_percent |-> -900,
        unit_change |-> "-5 words", direction |-> "decrease"],
       [feature |-> "has_number", effect_percent |-> 600,
        unit_change |-> "+1", direction |-> "increase"] >>

DummyRecs ==
    << [title |-> "Shorten titles slightly", expected_impact_percent |-> 900,
        confidence |-> "medium"],
       [title |-> "Use numbers in titles occasionally",
        expected_impact_percent |-> 600, confidence |-> "low"] >>

None == "None"

\* ------------------------------------------------------------------------
\* State of one run of run_channel_analysis
\* ------------------------------------------------------------------------
\* The row dicts are shared objects: details maps a video id to its dict,
\* and rows, rows_sorted and window are lists of references (video ids).
VARIABLES
    pc,              \* position in run_channel_analysis
    baseline_window, \* req.baseline_window
    details,         \* video id -> row dict, mutated in place
    rows,            \* list(details.values())
    rows_sorted,     \* rows newest -> oldest
    window,          \* the baseline window
    baseline,        \* rational, or None before step 5
    kpis,
    trends,
    drivers,
    recs,
    resp,            \* the AnalyticsResponse, or None
    calls,           \* services invoked so far, in order
    \* ---- state of one call of ModelService.train_and_explain ----
    mpc,             \* "idle" | "called" | "returned" | "raised"
    mrows,           \* argument rows
    fit,             \* numeric result of scaler + Ridge + cross_val_score
    mout,            \* the ModelOutput, or None
    \* ---- one call of ModelService._make_recommendations ----
    rpc,             \* "idle" | "called" | "returned"
    ranked,          \* argument drivers_sorted
    rec_r2,          \* argument r2_mean
    made,            \* the returned recommendations, or None
    \* ---- one call of TopicService.analyze ----
    tpc,             \* "idle" | "called" | "returned"
    trows,           \* argument rows
    raw_labels,      \* what HDBSCAN.fit_predict returns for the titles
    topic_ids,       \* result of _cluster
    labels,          \* result of _compute_labels
    analysis,        \* the TopicAnalysis, or None
    \* ---- one call of FeatureService.numeric_rates ----
    fpc,             \* "idle" | "called" | "returned"
    rate_in,         \* arguments views, likes, comments
    rate_out,        \* the returned rates, or None
    \* ---- one pass of _to_dt and FeatureService.time_features ----
    dpc,             \* "idle" | "called" | "returned" | "raised"
    ts_in,           \* published_at as fetched
    ts_out,          \* the returned time features, or None
    \* ---- YouTubeService.get_videos_details and its cache files ----
    files,           \* the cache files: path and blob
    ncalls,          \* calls of get_videos_details so far
    last_call,       \* arguments of the last call, or None
    last_result,     \* what the last call returned, or None
    \* ---- TopicService objects of one process ----
    loads,           \* SentenceTransformer models loaded so far
    services,        \* TopicService object -> the model it holds
    embeds           \* _embed calls so far: <<service, model used>>

recVars == <<rpc, ranked, rec_r2, made>>
topicVars == <<tpc, trows, raw_labels, topic_ids, labels, analysis>>
rateVars == <<fpc, rate_in, rate_out>>
timeVars == <<dpc, ts_in, ts_out>>
cacheVars == <<files, ncalls, last_call, last_result>>
embedVars == <<loads, services, embeds>>
callVars == <<recVars, topicVars, rateVars, timeVars, cacheVars, embedVars>>

vars == <<pc, baseline_window, details, rows, rows_sorted, window, baseline,
          kpis, trends, drivers, recs, resp, calls, mpc, mrows, fit, mout,
          callVars>>

runVars == <<pc, baseline_window, details, rows, rows_sorted, window,
             baseline, kpis, trends, drivers, recs, resp, calls>>
modelVars == <<mpc, mrows, fit, mout>>

\* ------------------------------------------------------------------------
\* AnalyticsService.run_channel_analysis, one action per numbered step
\* ------------------------------------------------------------------------
RECURSIVE InsertDescByTime(_, _)
\* insert id after every element whose published_at is >= its own: a stable
\* descending sort keeps the input order among equal keys
InsertDescByTime(s, id) ==
    IF s = <<>> THEN <<id>>
    ELSE IF details[Head(s)].published_at >= details[id].published_at
         THEN <<Head(s)>> \o InsertDescByTime(Tail(s), id)
         ELSE <<id>> \o s

RECURSIVE SortDescByTime(_)
SortDescByTime(s) ==
    IF s = <<>> THEN <<>>
    ELSE InsertDescByTime(SortDescByTime(SubSeq(s, 1, Len(s) - 1)), s[Len(s)])

RunInit ==
    /\ pc = "start"
    /\ baseline_window = None
    /\ details = <<>>
    /\ rows = <<>>
    /\ rows_sorted = <<>>
    /\ window = <<>>
    /\ baseline = None
    /\ kpis = None
    /\ trends = <<>>
    /\ drivers = <<>>
    /\ recs = <<>>
    /\ resp = None
    /\ calls = <<>>

ModelIdle ==
    /\ mpc = "idle"
    /\ mrows = <<>>
    /\ fit = None
    /\ mout = None

RecsIdle ==
    /\ rpc = "idle"
    /\ ranked = <<>>
    /\ rec_r2 = None
    /\ made = None

TopicIdle ==
    /\ tpc = "idle"
    /\ trows = <<>>
    /\ raw_labels = <<>>
    /\ topic_ids = <<>>
    /\ labels = <<>>
    /\ analysis = None

RatesIdle ==
    /\ fpc = "idle"
    /\ rate_in = None
    /\ rate_out = None

TimeIdle ==
    /\ dpc = "idle"
    /\ ts_in = None
    /\ ts_out = None

CacheIdle ==
    /\ files = {}
    /\ ncalls = 0
    /\ last_call = None
    /\ last_result = None

EmbedIdle ==
    /\ loads = 0
    /\ services = <<>>
    /\ embeds = <<>>

Init ==
    /\ RunInit /\ ModelIdle
    /\ RecsIdle /\ TopicIdle /\ RatesIdle /\ TimeIdle /\ CacheIdle /\ EmbedIdle

\* step 1: the request arrives and the video details are fetched
Fetch ==
    /\ pc = "start"
    /\ \E bw \in BaselineWindows, d \in DetailSets :
         /\ baseline_window' = bw
         /\ details' = d
         /\ rows' = [i \in 1..Len(d) |-> d[i].video_id]
    /\ calls' = calls \o <<"YouTubeService.get_uploads_playlist_id",
                           "YouTubeService.list_playlist_video_ids",
                           "YouTubeService.get_videos_details">>
    /\ pc' = "vpd"
    /\ UNCHANGED <<rows_sorted, window, baseline, kpis, trends, drivers,
                   recs, resp, modelVars, callVars>>

\* (now - published_at).days: whole days, rounded towards minus infinity
WholeDays(published_at) == (NowT - published_at) \div HoursPerDay

ViewsPerDay(r) ==
    LET age_days == Max2(WholeDays(r.published_at), 1)
    IN  Rat(r.views, age_days)

\* step 2
ComputeViewsPerDay ==
    /\ pc = "vpd"
    /\ details' = [id \in DOMAIN details |->
           details[id] @@ [views_per_day |-> ViewsPerDay(details[id])]]
    /\ pc' = "features"
    /\ UNCHANGED <<baseline_window, rows, rows_sorted, window, baseline, kpis,
                   trends, drivers, recs, resp, calls, modelVars, callVars>>

\* step 3
FeatureEngineering ==
    /\ pc = "features"
    /\ details' = [id \in DOMAIN details |->
           details[id]
           @@ numeric_rates(details[id].views, details[id].likes,
                            details[id].comments)
           @@ time_features(details[id].published_at)]
    /\ calls' = calls \o <<"FeatureService">>
    /\ pc' = "sort"
    /\ UNCHANGED <<baseline_window, rows, rows_sorted, window, baseline, kpis,
                   trends, drivers, recs, resp, modelVars, callVars>>

\* mutant: the window taken from the oldest end of the sorted list
BaselineWindow_Oldest(sorted, bw) ==
    SubSeq(sorted, Len(sorted) - Min2(bw, Len(sorted)) + 1, Len(sorted))

BaselineWindow(sorted, bw) == SubSeq(sorted, 1, Min2(bw, Len(sorted)))

\* mutant: the lower median, index (count - 1) // 2
MedianByIndex_Lower(vpd_window) ==
    IF vpd_window # <<>>
    THEN vpd_window[((Len(vpd_window) - 1) \div 2) + 1]
    ELSE RatOne

MedianByIndex(vpd_window) ==
    IF vpd_window # <<>>
    THEN vpd_window[(Len(vpd_window) \div 2) + 1]
    ELSE RatOne

Baseline(w) ==
    MedianByIndex(SortAscRat([i \in 1..Len(w) |->
                                 details[w[i]].views_per_day]))

\* steps 4 and 5
SortAndBaseline ==
    /\ pc = "sort"
    /\ rows_sorted' = SortDescByTime(rows)
    /\ window' = BaselineWindow(rows_sorted', baseline_window)
    /\ baseline' = Baseline(window')
    /\ pc' = "relperf"
    /\ UNCHANGED <<baseline_window, details, rows, kpis, trends, drivers,
                   recs, resp, calls, modelVars, callVars>>

\* mutant: a zero baseline leaves views_per_day as it is
RelPerf_ZeroKeepsRate(r, b) ==
    IF ~RatIsZero(b) THEN RatDiv(r.views_per_day, b) ELSE r.views_per_day

RelPerf(r, b) ==
    IF ~RatIsZero(b) THEN RatDiv(r.views_per_day, b) ELSE RatZero

\* step 6: the loop over rows_sorted sets the key on each row dict
RelativePerformance ==
    /\ pc = "relperf"
    /\ details' = [id \in DOMAIN details |->
           IF \E i \in 1..Len(rows_sorted) : rows_sorted[i] = id
           THEN details[id]
                @@ [relative_performance |-> RelPerf(details[id], baseline)]
           ELSE details[id]]
    /\ pc' = "assemble"
    /\ UNCHANGED <<baseline_window, rows, rows_sorted, window, baseline,
                   kpis, trends, drivers, recs, resp, calls, modelVars, callVars>>

MedianRel(rel_sorted) ==
    IF rel_sorted = <<>> THEN RatZero
    ELSE LET mid == Len(rel_sorted) \div 2
         IN  IF Len(rel_sorted) % 2 = 1
             THEN rel_sorted[mid + 1]
             ELSE RatHalf(RatAdd(rel_sorted[mid], rel_sorted[mid + 1]))

\* steps 7 and 8, and the hard-coded drivers and recommendations
Assemble ==
    /\ pc = "assemble"
    /\ LET n == Len(rows_sorted)
           eng_rates == [i \in 1..n |->
                            details[rows_sorted[i]].engagement_rate]
           rel_perf == [i \in 1..n |->
                           details[rows_sorted[i]].relative_performance]
       IN  kpis' = [videos_analyzed |-> n,
                    baseline_views_per_day |-> baseline,
                    median_relative_performance |->
                        MedianRel(SortAscRat(rel_perf)),
                    avg_engagement_rate |->
                        IF n > 0 THEN Rat(IntSum(eng_rates), n) ELSE RatZero]
    /\ trends' = [i \in 1..Min2(Len(rows_sorted), TrendCap) |->
          LET r == details[rows_sorted[i]]
          IN  [published_at |-> r.published_at,
               views |-> r.views,
               views_per_day |-> Round3(r.views_per_day),
               relative_performance |-> Round3(r.relative_performance)]]
    /\ drivers' = DummyDrivers
    /\ recs' = DummyRecs
    /\ pc' = "construct"
    /\ UNCHANGED <<baseline_window, details, rows, rows_sorted, window,
                   baseline, resp, calls, modelVars, callVars>>

\* AnalyticsResponse(...) validates its fields: a required field that is
\* not passed raises; otherwise the result is saved and returned
ConstructAndReturn ==
    /\ pc = "construct"
    /\ IF ResponseRequired \subseteq ResponsePassed
       THEN /\ resp' = [meta |-> [baseline_window |-> baseline_window,
                                  generated_at |-> NowT],
                        kpis |-> kpis,
                        trends |-> trends,
                        drivers |-> drivers,
                        recommendations |-> recs,
                        warnings |-> <<>>,
                        topics |-> <<>>,
                        topic_assignments |-> <<>>,
                        topic_insights |-> <<>>]
            /\ calls' = calls \o <<"_save_result">>
            /\ pc' = "returned"
       ELSE /\ resp' = None
            /\ calls' = calls
            /\ pc' = "raised"
    /\ UNCHANGED <<baseline_window, details, rows, rows_sorted, window,
                   baseline, kpis, trends, drivers, recs, modelVars, callVars>>

Next ==
    \/ Fetch
    \/ ComputeViewsPerDay
    \/ FeatureEngineering
    \/ SortAndBaseline
    \/ RelativePerformance
    \/ Assemble
    \/ ConstructAndReturn

Spec == Init /\ [][Next]_vars

\* ------------------------------------------------------------------------
\* ModelService (services/model_service.py)
\* ------------------------------------------------------------------------
\* Bounds of the inputs of train_and_explain
MaxRows == 6
MaxEff == 2

FEATURES ==
    << "duration_seconds", "title_length_chars", "title_word_count",
       "has_number", "has_question", "has_brackets", "caps_ratio",
       "emoji_count", "publish_hour", "publish_day_of_week", "is_weekend" >>

FeatureSet == {FEATURES[i] : i \in 1..Len(FEATURES)}

\* the columns train_and_explain casts with astype(int)
BoolFeatures == {"has_number", "has_question", "has_brackets", "is_weekend"}

UnitLabel(feat) ==
    CASE feat = "duration_seconds" -> "+60s"
      [] feat = "title_length_chars" -> "-15 chars"
      [] feat = "title_word_count" -> "-5 words"
      [] feat = "caps_ratio" -> "+0.10"
      [] feat = "emoji_count" -> "+1"
      [] feat = "publish_hour" -> "+2 hours"
      [] feat = "publish_day_of_week" -> "+1 day"
      [] OTHER -> "+1 (false->true)"

MinValidRows == 5
StableRows == 8
TopN == 8
MaxRecs == 3

\* Logarithms of relative_performance, in units of 1e-8
Ln2 == 69314718
Ln10 == 230258509
\* np.allclose defaults: atol = 1e-8 (one unit), rtol = 1e-5
AtolUnits == 1
RtolInv == 100000

Abs(x) == IF x < 0 THEN -x ELSE x

\* A row handed to train_and_explain: the features it carries and its
\* relative_performance: key absent ("missing"), <= 0 ("nonpos"), or > 0
\* ("pos") with its natural logarithm ln
FullRow(kind, ln) == [rp |-> kind, ln |-> ln, has |-> FeatureSet]
PartRow(kind, ln, absent) ==
    [rp |-> kind, ln |-> ln, has |-> FeatureSet \ {absent}]

RowKinds ==
    { FullRow("pos", 0),
      FullRow("pos", Ln2),
      FullRow("pos", Ln2 + 500),
      FullRow("nonpos", 0),
      FullRow("missing", 0),
      PartRow("pos", 0, "has_number"),
      PartRow("pos", Ln2, "duration_seconds") }

RowLists == UNION { [1..n -> RowKinds] : n \in 0..MaxRows }

\* row lists on which no guard fires, with fewer and with at least 8 rows,
\* the second with a relative_performance of 20
FittedRowLists ==
    { << FullRow("pos", 0), FullRow("pos", Ln2), FullRow("pos", 0),
         FullRow("pos", Ln2), FullRow("pos", Ln2) >>,
      << FullRow("pos", 0), FullRow("pos", Ln2), FullRow("pos", 0),
         FullRow("pos", Ln2), FullRow("pos", Ln2), FullRow("pos", 0),
         FullRow("pos", Ln10 + Ln2), FullRow("nonpos", 0) >> }

\* The numeric part of train_and_explain (StandardScaler, Ridge,
\* cross_val_score, exp) is not computed here: its results are inputs.
\*   effect[f]: effect_percent of feature f before rounding, in 0.001 %
\*   r2:        mean cross-validated R^2: nan, or val in thousandths
\*   overflow:  math.exp raised OverflowError
EffStep == 4
EffVals == {k * EffStep : k \in (-MaxEff)..MaxEff}
VaryingFeatures == {"title_length_chars", "has_question", "emoji_count",
                    "is_weekend"}
FixedEffect(feat) ==
    CASE feat = "duration_seconds" -> 3
      [] feat = "title_word_count" -> -4
      [] feat = "has_number" -> 0
      [] feat = "has_brackets" -> -7
      [] feat = "caps_ratio" -> 6
      [] feat = "publish_hour" -> -5
      [] feat = "publish_day_of_week" -> 4
      [] OTHER -> 0

R2(v) == [nan |-> FALSE, val |-> v]
R2NaN == [nan |-> TRUE, val |-> 0]
R2Vals == {R2NaN, R2(40), R2(100), R2(300)}

EffectVectors ==
    { [f \in FeatureSet |->
          IF f \in VaryingFeatures THEN v[f] ELSE FixedEffect(f)]
      : v \in [VaryingFeatures -> EffVals] }

\* fits in which the two features without a template (emoji_count and
\* publish_day_of_week) have the two largest absolute effects
UntemplatedLeadFits ==
    { [effect |-> [f \in FeatureSet |->
                      IF f = "emoji_count" THEN e
                      ELSE IF f = "publish_day_of_week" THEN -e
                      ELSE FixedEffect(f)],
       r2 |-> R2(300), overflow |-> FALSE]
      : e \in {12, 16} }

Fits ==
    { [effect |-> e, r2 |-> r, overflow |-> FALSE]
      : e \in EffectVectors, r \in R2Vals }
    \cup UntemplatedLeadFits
    \cup { [effect |-> [f \in FeatureSet |-> 0], r2 |-> R2(40),
            overflow |-> TRUE] }

DefaultFit ==
    [effect |-> [f \in FeatureSet |-> FixedEffect(f)], r2 |-> R2(100),
     overflow |-> FALSE]

\* round(effect_percent, 2), in 0.001 %
Round2(eff) ==
    IF eff >= 0 THEN 10 * RoundHalfEven(eff, 10)
    ELSE -(10 * RoundHalfEven(-eff, 10))

RECURSIVE InsertDescByAbs(_, _)
InsertDescByAbs(s, d) ==
    IF s = <<>> THEN <<d>>
    ELSE IF Head(s).abs_effect >= d.abs_effect
         THEN <<Head(s)>> \o InsertDescByAbs(Tail(s), d)
         ELSE <<d>> \o s

RECURSIVE SortDescByAbs(_)
SortDescByAbs(s) ==
    IF s = <<>> THEN <<>>
    ELSE InsertDescByAbs(SortDescByAbs(SubSeq(s, 1, Len(s) - 1)), s[Len(s)])

_confidence_label(r2_mean) ==
    \* every comparison with nan is false
    IF ~r2_mean.nan /\ r2_mean.val >= 300 THEN "high"
    ELSE IF ~r2_mean.nan /\ r2_mean.val >= 100 THEN "medium"
    ELSE "low"

Templates ==
    {"title_word_count", "title_length_chars", "has_number", "publish_hour",
     "duration_seconds", "caps_ratio", "has_question", "is_weekend",
     "has_brackets"}

TemplateTitle(feat) ==
    CASE feat = "title_word_count" -> "Adjust title length"
      [] feat = "title_length_chars" -> "Refine title length"
      [] feat = "has_number" -> "Use numbers strategically"
      [] feat = "publish_hour" -> "Experiment with upload time"
      [] feat = "duration_seconds" -> "Tune video length"
      [] feat = "caps_ratio" -> "Adjust capitalization style"
      [] feat = "has_question" -> "Use question marks carefully"
      [] feat = "is_weekend" -> "Test weekday vs weekend uploads"
      [] feat = "has_brackets" -> "Try bracketed hooks"
      [] OTHER -> "Focus on top driver"

RECURSIVE RecLoop_NoBreak(_, _, _)
\* mutant: the loop without its break
RecLoop_NoBreak(ds, recs0, confidence) ==
    IF ds = <<>> THEN recs0
    ELSE LET d == Head(ds)
             recs1 == IF d.feature \in Templates
                      THEN Append(recs0,
                               [title |-> TemplateTitle(d.feature),
                                expected_impact_percent |-> d.effect_percent,
                                confidence |-> confidence])
                      ELSE recs0
         IN  RecLoop_NoBreak(Tail(ds), recs1, confidence)

RECURSIVE RecLoop(_, _, _)
\* the for loop of _make_recommendations, with its break at 3
RecLoop(ds, recs0, confidence) ==
    IF ds = <<>> THEN recs0
    ELSE LET d == Head(ds)
             recs1 == IF d.feature \in Templates
                      THEN Append(recs0,
                               [title |-> TemplateTitle(d.feature),
                                expected_impact_percent |-> d.effect_percent,
                                confidence |-> confidence])
                      ELSE recs0
         IN  IF Len(recs1) = MaxRecs THEN recs1
             ELSE RecLoop(Tail(ds), recs1, confidence)

_make_recommendations(drivers_sorted, r2_mean) ==
    LET confidence == _confidence_label(r2_mean)
        looped == RecLoop(drivers_sorted, <<>>, confidence)
    IN  IF looped = <<>> /\ drivers_sorted # <<>>
        THEN << [title |-> "Focus on top driver",
                 expected_impact_percent |-> drivers_sorted[1].effect_percent,
                 confidence |-> confidence] >>
        ELSE looped

Returned(ds, rs, ws, ms) ==
    [status |-> "returned", drivers |-> ds, recommendations |-> rs,
     warnings |-> ws, metrics |-> ms]

Raised(exc) ==
    [status |-> "raised", exception |-> exc]

\* np.allclose(y, y[0]): every |y[i] - y[0]| <= atol + rtol * |y[0]|
AllClose(y) ==
    \A i \in 1..Len(y) :
        Abs(y[i] - y[1]) <= AtolUnits + (Abs(y[1]) \div RtolInv)

\* mutant: the guard also rejects exactly 5 valid rows
TooFewValid_Inclusive(df) == Len(df) <= MinValidRows

\* the guard on the rows left after filtering
TooFewValid(df) == Len(df) < MinValidRows

\* mutant: the sort key is the signed effect
DriverOf_SignedKey(feat, eff) ==
    [feature |-> feat,
     effect_percent |-> Round2(eff),
     unit_change |-> UnitLabel(feat),
     direction |-> IF eff >= 0 THEN "increase" ELSE "decrease",
     abs_effect |-> eff]

DriverOf(feat, eff) ==
    [feature |-> feat,
     effect_percent |-> Round2(eff),
     unit_change |-> UnitLabel(feat),
     direction |-> IF eff >= 0 THEN "increase" ELSE "decrease",
     abs_effect |-> Abs(eff)]

PopAbs(d) ==
    [feature |-> d.feature, effect_percent |-> d.effect_percent,
     unit_change |-> d.unit_change, direction |-> d.direction]

\* mutant: as many drivers are kept as recommendations are made
TopDrivers_AsManyAsRecs(drivers_sorted) ==
    SubSeq(drivers_sorted, 1, Min2(MaxRecs, Len(drivers_sorted)))

TopDrivers(drivers_sorted) ==
    SubSeq(drivers_sorted, 1, Min2(TopN, Len(drivers_sorted)))

train_and_explain(rs, f) ==
    LET warnings0 == IF Len(rs) < StableRows THEN <<"too few videos">>
                     ELSE <<>>
        \* columns of pd.DataFrame(rows): the union of the rows' keys
        hasTarget == \E i \in 1..Len(rs) : rs[i].rp # "missing"
        columns == UNION {rs[i].has : i \in 1..Len(rs)}
        df == SelectSeq(rs, LAMBDA r : r.rp = "pos")
        missing == FeatureSet \ columns
        y == [i \in 1..Len(df) |-> df[i].ln]
        nanIn(cols) == \E i \in 1..Len(df) : cols \ df[i].has # {}
        drivers0 == [i \in 1..Len(FEATURES) |->
                        DriverOf(FEATURES[i], f.effect[FEATURES[i]])]
        sorted0 == SortDescByAbs(drivers0)
        drivers_sorted == [i \in 1..Len(sorted0) |-> PopAbs(sorted0[i])]
        recommendations == _make_recommendations(drivers_sorted, f.r2)
        spikes == IF \E i \in 1..Len(df) : df[i].ln > Ln10
                  THEN <<"extreme spikes">> ELSE <<>>
        lowr2 == IF ~f.r2.nan /\ f.r2.val < 50 THEN <<"low cv r2">> ELSE <<>>
    IN  IF ~hasTarget
        THEN Returned(<<>>, <<>>, <<"missing relative_performance">>, <<>>)
        ELSE IF TooFewValid(df)
        THEN Returned(<<>>, <<>>,
                      warnings0 \o <<"not enough valid rows">>, <<>>)
        ELSE IF missing # {}
        THEN Returned(<<>>, <<>>,
                      warnings0 \o <<"missing feature columns">>, <<>>)
        ELSE IF nanIn(BoolFeatures)
        THEN Raised("ValueError: astype(int) of NaN")
        ELSE IF AllClose(y)
        THEN Returned(<<>>, <<>>,
                      warnings0 \o <<"near-zero variance">>, <<>>)
        ELSE IF nanIn(FeatureSet)
        THEN Raised("ValueError: Ridge.fit input contains NaN")
        ELSE IF f.overflow
        THEN Raised("OverflowError: math.exp")
        ELSE Returned(TopDrivers(drivers_sorted), recommendations,
                      warnings0 \o spikes \o lowr2,
                      <<f.r2, Len(df)>>)

ModelInit ==
    /\ mpc = "called"
    /\ \/ mrows \in RowLists /\ fit = DefaultFit
       \/ mrows \in FittedRowLists /\ fit \in Fits
    /\ mout = None

TrainAndExplain ==
    /\ mpc = "called"
    /\ mout' = train_and_explain(mrows, fit)
    /\ mpc' = mout'.status
    /\ UNCHANGED <<mrows, fit, runVars, callVars>>

InitModel ==
    /\ RunInit /\ ModelInit
    /\ RecsIdle /\ TopicIdle /\ RatesIdle /\ TimeIdle /\ CacheIdle /\ EmbedIdle

NextModel == TrainAndExplain

SpecModel == InitModel /\ [][NextModel]_vars

\* ------------------------------------------------------------------------
\* ModelService._make_recommendations called on its own
\* ------------------------------------------------------------------------
\* Bound: longest ranked driver list handed to _make_recommendations
MaxRanked == 4

\* features the ranked lists are drawn from: four with a template, and the
\* two without one
RankedFeatures ==
    {"title_word_count", "has_number", "publish_hour", "duration_seconds",
     "emoji_count", "publish_day_of_week"}

\* effect_percent of the driver at rank i of n, in 0.001 %: the caller has
\* sorted the list by absolute effect, largest first
RankedEffect(feat, i, n) ==
    IF feat \in {"title_word_count", "emoji_count"}
    THEN -(100 * (n + 1 - i))
    ELSE 100 * (n + 1 - i)

RankedDriver(feat, i, n) ==
    PopAbs(DriverOf(feat, RankedEffect(feat, i, n)))

RankedLists ==
    UNION { { [i \in 1..n |-> RankedDriver(f[i], i, n)] :
                f \in {g \in [1..n -> RankedFeatures] :
                          \A i, j \in 1..n : i # j => g[i] # g[j]} }
            : n \in 0..MaxRanked }

RecR2Vals == {R2NaN, R2(-50), R2(99), R2(100), R2(299), R2(300)}

RecsInit ==
    /\ rpc = "called"
    /\ ranked \in RankedLists
    /\ rec_r2 \in RecR2Vals
    /\ made = None

MakeRecommendations ==
    /\ rpc = "called"
    /\ made' = _make_recommendations(ranked, rec_r2)
    /\ rpc' = "returned"
    /\ UNCHANGED <<ranked, rec_r2, runVars, modelVars, topicVars, rateVars,
                   timeVars, cacheVars, embedVars>>

InitRecs ==
    /\ RunInit /\ ModelIdle
    /\ RecsInit /\ TopicIdle /\ RatesIdle /\ TimeIdle /\ CacheIdle /\ EmbedIdle

NextRecs == MakeRecommendations

SpecRecs == InitRecs /\ [][NextRecs]_vars

\* ------------------------------------------------------------------------
\* TopicService (services/topic_service.py)
\* ------------------------------------------------------------------------
\* Bound: most rows handed to TopicService.analyze
MaxTopicRows == 5

NoiseLabel == -1
MiscId == -1
LabelCap == 60
ExamplesPerTopic == 3
ExamplesOfMisc == 5
FatigueMinVideos == 4
MaxAdaptiveWindow == 3

RatSub(a, b) == <<a[1] * b[2] - b[1] * a[2], a[2] * b[2]>>
RatMul(a, b) == <<a[1] * b[1], a[2] * b[2]>>

RECURSIVE GCD(_, _)
GCD(a, b) == IF b = 0 THEN a ELSE GCD(b, a % b)

\* the same number in lowest terms
RatNorm(a) ==
    LET g == GCD(IF a[1] < 0 THEN -a[1] ELSE a[1], a[2])
    IN  <<a[1] \div g, a[2] \div g>>

RECURSIVE RatSum(_)
RatSum(s) ==
    IF s = <<>> THEN RatZero
    ELSE RatNorm(RatAdd(Head(s), RatSum(Tail(s))))

\* relative_performance and views_per_day are in hundredths; thresholds of
\* the service in the same unit
FatigueMomentum == Rat(-15, 1)
ImprovingMomentum == Rat(15, 1)
StableMomentum == Rat(5, 1)
\* volatility < 0.3, squared: variance < 0.09, i.e. 900 hundredths^2
StableVariance == Rat(900, 1)
HitLevel == 100
MiscConfidence == Rat(3, 10)

\* a title: its text and its length in characters
Title(i) == [text |-> <<"title", i>>, len |-> 30 + 13 * ((2 * i) % 5)]
MiscOneOffs == [text |-> <<"Misc / One-offs", 0>>, len |-> 15]
Misc == [text |-> <<"Misc", 0>>, len |-> 4]

\* views_per_day = relative_performance * baseline, with a baseline of 2.0
TopicBaseline == 2

TopicRow(i, t, rel) ==
    [video_id |-> i, title |-> Title(i), published_at |-> t,
     relative_performance |-> rel, views_per_day |-> TopicBaseline * rel]

\* publish times of n rows: oldest first, newest first (the order of
\* rows_sorted), or with equal instants
PublishOrders == {"asc", "desc", "tied"}
PublishTime(o, i, n) ==
    CASE o = "asc" -> i
      [] o = "desc" -> n + 1 - i
      [] OTHER -> (i + 1) \div 2

RelVals == {84, 85, 100, 120}
\* relative_performance as a function of the publish time: rising, falling
RelProfiles == {"rising", "falling"}
ProfileRel(p, t) == IF p = "rising" THEN 80 + 5 * t ELSE 125 - 5 * t

RawLabelVals == {NoiseLabel, 0, 1}

\* rows with the given relative_performance values
FreeRows(n, o, r) ==
    [i \in 1..n |-> TopicRow(i, PublishTime(o, i, n), r[i])]

\* rows whose relative_performance follows a profile
ProfileRows(n, o, p) ==
    [i \in 1..n |->
        TopicRow(i, PublishTime(o, i, n), ProfileRel(p, PublishTime(o, i, n)))]

\* one cluster, with the first point as noise or not
OneCluster(n, first_noise) ==
    [i \in 1..n |-> IF first_noise /\ i = 1 THEN NoiseLabel ELSE 0]

RECURSIVE SeqMax(_)
SeqMax(s) ==
    IF Len(s) = 1 THEN s[1] ELSE Max2(Head(s), SeqMax(Tail(s)))

RECURSIVE ResolveNoise_Shared(_, _)
\* mutant: next_topic_id is not advanced, every noise point gets the same id
ResolveNoise_Shared(raw, next_topic_id) ==
    IF raw = <<>> THEN <<>>
    ELSE IF Head(raw) = NoiseLabel
         THEN <<next_topic_id>>
                  \o ResolveNoise_Shared(Tail(raw), next_topic_id)
         ELSE <<Head(raw)>> \o ResolveNoise_Shared(Tail(raw), next_topic_id)

RECURSIVE ResolveNoise(_, _)
\* the loop that turns each noise point into a topic of its own
ResolveNoise(raw, next_topic_id) ==
    IF raw = <<>> THEN <<>>
    ELSE IF Head(raw) = NoiseLabel
         THEN <<next_topic_id>> \o ResolveNoise(Tail(raw), next_topic_id + 1)
         ELSE <<Head(raw)>> \o ResolveNoise(Tail(raw), next_topic_id)

\* _cluster, from the labels of fit_predict on (raw is not empty)
_cluster(raw) ==
    LET next_topic_id == IF SeqMax(raw) >= 0 THEN SeqMax(raw) + 1 ELSE 0
        resolved == ResolveNoise(raw, next_topic_id)
        unique == {resolved[i] : i \in 1..Len(resolved)}
        id_map == [old \in unique |-> Cardinality({u \in unique : u < old})]
    IN  [i \in 1..Len(resolved) |-> id_map[resolved[i]]]

RECURSIVE ShortestTitle(_)
\* min(titles, key=len): the first of the shortest titles
ShortestTitle(titles) ==
    IF Len(titles) = 1 THEN titles[1]
    ELSE LET rest == ShortestTitle(Tail(titles))
         IN  IF Head(titles).len <= rest.len THEN Head(titles) ELSE rest

_label_topic(titles) ==
    IF titles = <<>> THEN Misc
    ELSE LET t == ShortestTitle(titles)
         IN  [text |-> t.text, len |-> Min2(t.len, LabelCap)]

\* the rows of topic tid, in input order
Grouped(rs, tids, tid) ==
    LET idx == SelectSeq([i \in 1..Len(rs) |-> i], LAMBDA i : tids[i] = tid)
    IN  [j \in 1..Len(idx) |-> rs[idx[j]]]

\* keys of a dict filled in the order of zip(rows, topic_ids)
RECURSIVE KeyOrder(_, _)
KeyOrder(tids, seen) ==
    IF tids = <<>> THEN <<>>
    ELSE IF Head(tids) \in seen THEN KeyOrder(Tail(tids), seen)
         ELSE <<Head(tids)>> \o KeyOrder(Tail(tids), seen \cup {Head(tids)})

_compute_labels(rs, tids) ==
    [tid \in {tids[i] : i \in 1..Len(tids)} |->
        LET items == Grouped(rs, tids, tid)
        IN  _label_topic([j \in 1..Len(items) |-> items[j].title])]

_build_assignments(rs, tids, lbls) ==
    [i \in 1..Len(rs) |->
        [video_id |-> rs[i].video_id, topic_id |-> tids[i],
         topic_label |-> lbls[tids[i]]]]

RECURSIVE InsertAscByTime_Newest(_, _)
\* mutant: the topic's rows are ordered newest first
InsertAscByTime_Newest(s, r) ==
    IF s = <<>> THEN <<r>>
    ELSE IF Head(s).published_at >= r.published_at
         THEN <<Head(s)>> \o InsertAscByTime_Newest(Tail(s), r)
         ELSE <<r>> \o s

RECURSIVE InsertAscByTime(_, _)
InsertAscByTime(s, r) ==
    IF s = <<>> THEN <<r>>
    ELSE IF Head(s).published_at <= r.published_at
         THEN <<Head(s)>> \o InsertAscByTime(Tail(s), r)
         ELSE <<r>> \o s

RECURSIVE SortAscByTime(_)
\* sorted(items, key=published_at): stable, oldest first
SortAscByTime(s) ==
    IF s = <<>> THEN <<>>
    ELSE InsertAscByTime(SortAscByTime(SubSeq(s, 1, Len(s) - 1)), s[Len(s)])

RECURSIVE SeqMin(_)
SeqMin(s) ==
    IF Len(s) = 1 THEN s[1] ELSE Min2(Head(s), SeqMin(Tail(s)))

\* k = min(3, max(1, n // 2))
AdaptiveWindow(n) == Min2(MaxAdaptiveWindow, Max2(1, n \div 2))

\* mutant: the boundary values count as fatigue
Fatigue_Inclusive(momentum, n) ==
    RatLe(momentum, FatigueMomentum) /\ n >= FatigueMinVideos

Fatigue(momentum, n) ==
    RatLt(momentum, FatigueMomentum) /\ n >= FatigueMinVideos

\* statistics.median of a non-empty list of integers
MedianInt(vals) ==
    LET sorted == SortAscRat([i \in 1..Len(vals) |-> Rat(vals[i], 1)])
        n == Len(sorted)
    IN  IF n % 2 = 1 THEN sorted[(n \div 2) + 1]
        ELSE RatHalf(RatAdd(sorted[n \div 2], sorted[(n \div 2) + 1]))

MedianOfRats(vals) ==
    LET sorted == SortAscRat(vals)
        n == Len(sorted)
    IN  IF n % 2 = 1 THEN sorted[(n \div 2) + 1]
        ELSE RatHalf(RatAdd(sorted[n \div 2], sorted[(n \div 2) + 1]))

\* pstdev(vals) ** 2: the population variance
Variance(vals) ==
    LET n == Len(vals)
        mean == RatNorm(RatMul(RatSum(vals), Rat(1, n)))
        dev == [i \in 1..n |-> RatNorm(RatSub(vals[i], mean))]
        sq == [i \in 1..n |-> RatMul(dev[i], dev[i])]
    IN  RatNorm(RatMul(RatSum(sq), Rat(1, n)))

\* a volatility is kept as the variance it is the square root of
Volatility(variance) == [sqrt_of |-> variance]

\* slope of the least-squares line through (0, y[1]), .., (n - 1, y[n]):
\* sum((x - x_mean) * (y - y_mean)) / sum((x - x_mean) ** 2), both sums
\* multiplied by n * n
TrendSlope(y) ==
    LET n == Len(y)
        sx == IntSum([i \in 1..n |-> i - 1])
        sy == IntSum(y)
        denom == IntSum([i \in 1..n |-> (n * (i - 1) - sx) * (n * (i - 1) - sx)])
        numer == IntSum([i \in 1..n |-> (n * (i - 1) - sx) * (n * y[i] - sy)])
    IN  IF denom > 0 THEN Rat(numer, denom) ELSE RatZero

\* the TopicSummary of one group of rows
Summarize(tid, group, lbls) ==
    LET items == SortAscByTime(group)
        n == Len(items)
        rel == [i \in 1..n |-> items[i].relative_performance]
        vpd == [i \in 1..n |-> items[i].views_per_day]
        k == AdaptiveWindow(n)
        older == SubSeq(rel, 1, Min2(k, n))
        recent == SubSeq(rel, Max2(n - k, 0) + 1, n)
        older_avg == Rat(IntSum(older), Len(older))
        recent_avg == Rat(IntSum(recent), Len(recent))
        momentum == RatSub(recent_avg, older_avg)
        variance == IF n > 1
                    THEN Variance([i \in 1..n |-> Rat(rel[i], 1)])
                    ELSE RatZero
    IN  [topic_id |-> tid,
         label |-> lbls[tid],
         n_videos |-> n,
         avg_relative_performance |-> Rat(IntSum(rel), n),
         median_relative_performance |-> MedianInt(rel),
         avg_views_per_day |-> Rat(IntSum(vpd), n),
         volatility |-> Volatility(variance),
         recent_avg_relative_performance |-> recent_avg,
         older_avg_relative_performance |-> older_avg,
         momentum |-> momentum,
         trend_slope |-> TrendSlope(rel),
         fatigue |-> Fatigue(momentum, n),
         \* min(1.0, n / 10) * exp(-volatility), left unevaluated
         confidence |-> [scale |-> Rat(Min2(n, 10), 10),
                         exp_neg |-> Volatility(variance)],
         top_examples |->
             [i \in 1..Min2(ExamplesPerTopic, n) |-> items[i].title],
         hit_rate |->
             Rat(Cardinality({i \in 1..n : rel[i] >= HitLevel}), n),
         best_recent |-> Rat(SeqMax(recent), 1),
         worst_recent |-> Rat(SeqMin(recent), 1)]

\* mutant: the merged topic counts the topics that stay
MiscCount_Real(real_topics, singletons) == Len(real_topics)

\* n_videos of the merged topic
MiscCount(real_topics, singletons) == Len(singletons)

RECURSIVE Extend(_)
\* examples.extend(t.top_examples) over the singletons
Extend(singletons) ==
    IF singletons = <<>> THEN <<>>
    ELSE Head(singletons).top_examples \o Extend(Tail(singletons))

\* the "Misc / One-offs" topic built from the singleton summaries
MergeSingletons(real_topics, singletons) ==
    LET misc_rel == [i \in 1..Len(singletons) |->
                        singletons[i].avg_relative_performance]
        misc_vpd == [i \in 1..Len(singletons) |->
                        singletons[i].avg_views_per_day]
        m == Len(singletons)
        examples == Extend(singletons)
        best == CHOOSE x \in {misc_rel[i] : i \in 1..m} :
                    \A i \in 1..m : RatLe(misc_rel[i], x)
        worst == CHOOSE x \in {misc_rel[i] : i \in 1..m} :
                     \A i \in 1..m : RatLe(x, misc_rel[i])
    IN  [topic_id |-> MiscId,
         label |-> MiscOneOffs,
         n_videos |-> MiscCount(real_topics, singletons),
         avg_relative_performance |->
             RatNorm(RatMul(RatSum(misc_rel), Rat(1, m))),
         median_relative_performance |-> MedianOfRats(misc_rel),
         avg_views_per_day |-> RatNorm(RatMul(RatSum(misc_vpd), Rat(1, m))),
         volatility |->
             Volatility(IF m > 1 THEN Variance(misc_rel) ELSE RatZero),
         recent_avg_relative_performance |-> RatZero,
         older_avg_relative_performance |-> RatZero,
         momentum |-> RatZero,
         trend_slope |-> RatZero,
         fatigue |-> FALSE,
         confidence |-> MiscConfidence,
         top_examples |-> SubSeq(examples, 1, Min2(ExamplesOfMisc, Len(examples))),
         hit_rate |-> RatZero,
         best_recent |-> best,
         worst_recent |-> worst]

\* ln(1 + n) in millionths
Log1pMicro(n) ==
    CASE n = 1 -> 693147
      [] n = 2 -> 1098612
      [] n = 3 -> 1386294
      [] n = 4 -> 1609438
      [] n = 5 -> 1791759
      [] n = 6 -> 1945910
      [] n = 7 -> 2079442
      [] OTHER -> 2197225

\* _topic_score, in units of 1e-7: 0.6 * momentum + 0.3 * boost +
\* 0.1 * ln(1 + n); the momentum is in hundredths and its denominator
\* divides 6
_topic_score(t) ==
    LET mo == RatNorm(t.momentum)
    IN  (60000 \div mo[2]) * mo[1]
            + (IF mo[1] > 0 THEN 3000000 ELSE 0)
            + Log1pMicro(t.n_videos)

RECURSIVE InsertDescByScore(_, _)
InsertDescByScore(s, t) ==
    IF s = <<>> THEN <<t>>
    ELSE IF _topic_score(Head(s)) >= _topic_score(t)
         THEN <<Head(s)>> \o InsertDescByScore(Tail(s), t)
         ELSE <<t>> \o s

RECURSIVE SortDescByScore(_)
SortDescByScore(s) ==
    IF s = <<>> THEN <<>>
    ELSE InsertDescByScore(SortDescByScore(SubSeq(s, 1, Len(s) - 1)),
                           s[Len(s)])

_build_topic_summaries(rs, tids, lbls) ==
    LET keys == KeyOrder(tids, {})
        summaries == [j \in 1..Len(keys) |->
                         Summarize(keys[j], Grouped(rs, tids, keys[j]), lbls)]
        real_topics == SelectSeq(summaries, LAMBDA t : t.n_videos >= 2)
        singletons == SelectSeq(summaries, LAMBDA t : t.n_videos < 2)
    IN  SortDescByScore(
            IF singletons # <<>>
            THEN Append(real_topics, MergeSingletons(real_topics, singletons))
            ELSE real_topics)

\* f"{momentum:.2f}": the momentum to two decimals, in hundredths
Fmt2(mo) ==
    IF mo[1] >= 0 THEN RoundHalfEven(mo[1], mo[2])
    ELSE -RoundHalfEven(-mo[1], mo[2])

RatAbs(a) == <<IF a[1] < 0 THEN -a[1] ELSE a[1], a[2]>>

_build_insights(topics) ==
    LET improving == SelectSeq(topics,
                         LAMBDA t : RatLt(ImprovingMomentum, t.momentum))
        fatigued == SelectSeq(topics, LAMBDA t : t.fatigue)
        stable == SelectSeq(topics,
                      LAMBDA t : /\ RatLt(RatAbs(t.momentum), StableMomentum)
                                 /\ RatLt(t.volatility.sqrt_of,
                                          StableVariance))
    IN  (IF improving # <<>>
         THEN << [kind |-> "improving", label |-> improving[1].label,
                  value |-> Fmt2(improving[1].momentum)] >>
         ELSE <<>>)
        \o (IF fatigued # <<>>
            THEN << [kind |-> "fatigue", label |-> fatigued[1].label,
                     value |-> Fmt2(fatigued[1].momentum)] >>
            ELSE <<>>)
        \o (IF stable # <<>>
            THEN << [kind |-> "stable", label |-> Misc,
                     value |-> Len(stable)] >>
            ELSE <<>>)

TopicAnalysis(a, t, i) == [assignments |-> a, topics |-> t, insights |-> i]

TopicInit ==
    /\ tpc = "called"
    \* the rows, and the labels HDBSCAN gives their titles: free
    \* relative_performance under two labellings, or every labelling under
    \* a profile
    /\ \E n \in 0..MaxTopicRows, o \in PublishOrders :
         \/ \E r \in [1..n -> RelVals], first_noise \in BOOLEAN :
              /\ trows = FreeRows(n, o, r)
              /\ raw_labels = OneCluster(n, first_noise)
         \/ \E l \in [1..n -> RawLabelVals], p \in RelProfiles :
              /\ trows = ProfileRows(n, o, p)
              /\ raw_labels = l
    /\ topic_ids = <<>>
    /\ labels = <<>>
    /\ analysis = None

\* TopicService.analyze
Analyze ==
    /\ tpc = "called"
    /\ IF trows = <<>>
       THEN /\ analysis' = TopicAnalysis(<<>>, <<>>, <<>>)
            /\ UNCHANGED <<topic_ids, labels>>
       ELSE /\ topic_ids' = _cluster(raw_labels)
            /\ labels' = _compute_labels(trows, topic_ids')
            /\ LET assignments == _build_assignments(trows, topic_ids', labels')
                   topics == _build_topic_summaries(trows, topic_ids', labels')
               IN  analysis' =
                       TopicAnalysis(assignments, topics,
                                     _build_insights(topics))
    /\ tpc' = "returned"
    /\ UNCHANGED <<trows, raw_labels, runVars, modelVars, recVars, rateVars,
                   timeVars, cacheVars, embedVars>>

InitTopic ==
    /\ RunInit /\ ModelIdle
    /\ RecsIdle /\ TopicInit /\ RatesIdle /\ TimeIdle /\ CacheIdle /\ EmbedIdle

NextTopic == Analyze

SpecTopic == InitTopic /\ [][NextTopic]_vars

\* ------------------------------------------------------------------------
\* FeatureService.numeric_rates called on its own
\* ------------------------------------------------------------------------
\* Bound: largest count handed to numeric_rates
MaxCount == 4

Counts == (-1)..MaxCount

RatesInit ==
    /\ fpc = "called"
    /\ rate_in \in [views : Counts, likes : Counts, comments : Counts]
    /\ rate_out = None

NumericRates ==
    /\ fpc = "called"
    /\ rate_out' = numeric_rates(rate_in.views, rate_in.likes,
                                 rate_in.comments)
    /\ fpc' = "returned"
    /\ UNCHANGED <<rate_in, runVars, modelVars, recVars, topicVars, timeVars,
                   cacheVars, embedVars>>

InitRates ==
    /\ RunInit /\ ModelIdle
    /\ RecsIdle /\ TopicIdle /\ RatesInit /\ TimeIdle /\ CacheIdle /\ EmbedIdle

NextRates == NumericRates

SpecRates == InitRates /\ [][NextRates]_vars

\* ------------------------------------------------------------------------
\* published_at from _to_dt to FeatureService.time_features
\* ------------------------------------------------------------------------
\* A timezone-aware timestamp is an instant (whole hours since the epoch,
\* UTC) and a UTC offset in hours; it arrives as a datetime (fresh fetch)
\* or as an ISO string (cache hit).
Instants == {d * HoursPerDay + h : d \in 4..7, h \in {0, 1, 12, 22, 23}}
UtcOffsets == {-5, 0, 2, 9}
Forms == {"datetime", "str"}

Timestamp(form, utc, offset) ==
    [form |-> form, utc |-> utc, offset |-> offset]

\* the datetime object: the instant with the offset the input carries
Datetime(utc, offset) == [utc |-> utc, offset |-> offset]

\* _to_dt: a datetime is returned as it is, a string is parsed with
\* fromisoformat, which keeps its offset
_to_dt(x) ==
    IF x.form = "datetime" THEN Datetime(x.utc, x.offset)
    ELSE IF x.form = "str" THEN Datetime(x.utc, x.offset)
    ELSE Raised("TypeError: published_at unexpected type")

\* the hours on the datetime's own clock: .hour and .weekday() read them
WallClock(dt) == dt.utc + dt.offset

TimeInit ==
    /\ dpc = "called"
    /\ ts_in \in {Timestamp(f, u, o) :
                    f \in Forms, u \in Instants, o \in UtcOffsets}
    /\ ts_out = None

\* run_channel_analysis, lines 46 and 55, for one row
TimeFeatures ==
    /\ dpc = "called"
    /\ LET published_at == _to_dt(ts_in)
       IN  IF "exception" \in DOMAIN published_at
           THEN /\ ts_out' = published_at
                /\ dpc' = "raised"
           ELSE /\ ts_out' = time_features(WallClock(published_at))
                /\ dpc' = "returned"
    /\ UNCHANGED <<ts_in, runVars, modelVars, recVars, topicVars, rateVars,
                   cacheVars, embedVars>>

InitTime ==
    /\ RunInit /\ ModelIdle
    /\ RecsIdle /\ TopicIdle /\ RatesIdle /\ TimeInit /\ CacheIdle /\ EmbedIdle

NextTime == TimeFeatures

SpecTime == InitTime /\ [][NextTime]_vars

\* ------------------------------------------------------------------------
\* YouTubeService.get_videos_details and its cache (youtube_service.py)
\* ------------------------------------------------------------------------
\* Bounds: calls in one behaviour, and length of the freely chosen id lists
MaxCalls == 3
MaxIds == 2

\* ids taken into the cache file name
KeyIds == 10

\* A video id is a string, kept as its sequence of characters.
ShortIds == { <<"a">>, <<"a", "_", "a">> }
LongId(i) ==
    <<"v", CASE i = 1 -> "1" [] i = 2 -> "2" [] i = 3 -> "3" [] i = 4 -> "4"
             [] i = 5 -> "5" [] i = 6 -> "6" [] i = 7 -> "7" [] i = 8 -> "8"
             [] i = 9 -> "9" [] i = 10 -> "a" [] i = 11 -> "b"
             [] OTHER -> "c">>

\* the id lists of the calls: every list of up to MaxIds short ids, and two
\* lists of KeyIds + 1 ids that differ in the last id only
IdLists ==
    UNION { [1..n -> ShortIds] : n \in 0..MaxIds }
    \cup { [i \in 1..(KeyIds + 1) |-> LongId(i)],
           [i \in 1..(KeyIds + 1) |->
               IF i <= KeyIds THEN LongId(i) ELSE LongId(i + 1)] }

\* run_channel_analysis calls with the default, use_cache = True
UseCache == {TRUE}

RECURSIVE Join(_)
\* "_".join(ids)
Join(ids) ==
    IF ids = <<>> THEN <<>>
    ELSE IF Len(ids) = 1 THEN ids[1]
    ELSE ids[1] \o <<"_">> \o Join(Tail(ids))

\* the cache file of an id list: videos_{len}_{first 10 ids joined}.json
cache_path(video_ids) ==
    <<Len(video_ids),
      Join(SubSeq(video_ids, 1, Min2(KeyIds, Len(video_ids))))>>

\* the parsed dict the API gives for an id list: one entry per id
Parsed(video_ids) == {video_ids[i] : i \in 1..Len(video_ids)}

\* _cache_read: the blob of the file at path, if the file exists
CacheRead(path) == {f \in files : f.path = path}

CacheInit ==
    /\ files = {}
    /\ ncalls = 0
    /\ last_call = None
    /\ last_result = None

\* get_videos_details(video_ids, use_cache); api_ok: the requests succeed
GetVideosDetails(video_ids, use_cache, api_ok) ==
    /\ ncalls < MaxCalls
    /\ ncalls' = ncalls + 1
    /\ last_call' = [video_ids |-> video_ids, use_cache |-> use_cache]
    /\ IF video_ids = <<>>
       THEN /\ last_result' = [status |-> "returned", parsed |-> {},
                               source |-> "none", stored_for |-> <<>>]
            /\ files' = files
       ELSE IF use_cache /\ CacheRead(cache_path(video_ids)) # {}
       THEN /\ \E f \in CacheRead(cache_path(video_ids)) :
                   last_result' = [status |-> "returned",
                                   parsed |-> f.parsed,
                                   source |-> "cache",
                                   stored_for |-> f.video_ids]
            /\ files' = files
       ELSE IF ~api_ok
       THEN /\ last_result' = Raised("YouTubeApiError")
            /\ files' = files
       ELSE /\ files' = {f \in files : f.path # cache_path(video_ids)}
                        \cup {[path |-> cache_path(video_ids),
                               video_ids |-> video_ids,
                               parsed |-> Parsed(video_ids)]}
            /\ last_result' = [status |-> "returned",
                               parsed |-> Parsed(video_ids),
                               source |-> "api",
                               stored_for |-> video_ids]
    /\ UNCHANGED <<runVars, modelVars, recVars, topicVars, rateVars,
                   timeVars, embedVars>>

InitCache ==
    /\ RunInit /\ ModelIdle
    /\ RecsIdle /\ TopicIdle /\ RatesIdle /\ TimeIdle /\ CacheInit /\ EmbedIdle

NextCache ==
    \E video_ids \in IdLists, use_cache \in UseCache, api_ok \in BOOLEAN :
        GetVideosDetails(video_ids, use_cache, api_ok)

SpecCache == InitCache /\ [][NextCache]_vars

\* ------------------------------------------------------------------------
\* TopicService objects and the embedding model of one process
\* ------------------------------------------------------------------------
\* Bounds: TopicService objects constructed, and _embed calls logged
MaxServices == 3
MaxEmbeds == 4

\* TopicService(): __init__ loads a SentenceTransformer and keeps it in
\* self.model
Construct ==
    /\ Len(services) < MaxServices
    /\ loads' = loads + 1
    /\ services' = Append(services, [model |-> loads + 1])
    /\ UNCHANGED <<embeds, runVars, modelVars, recVars, topicVars, rateVars,
                   timeVars, cacheVars>>

\* analyze on the object svc: empty rows return at once, otherwise _embed
\* encodes the titles with self.model
AnalyzeWith(svc, empty) ==
    /\ svc \in 1..Len(services)
    /\ Len(embeds) < MaxEmbeds
    /\ embeds' = IF empty THEN embeds
                 ELSE Append(embeds, [service |-> svc,
                                      model |-> services[svc].model])
    /\ UNCHANGED <<loads, services, runVars, modelVars, recVars, topicVars,
                   rateVars, timeVars, cacheVars>>

InitEmbed ==
    /\ RunInit /\ ModelIdle
    /\ RecsIdle /\ TopicIdle /\ RatesIdle /\ TimeIdle /\ CacheIdle /\ EmbedIdle

NextEmbed ==
    \/ Construct
    \/ \E svc \in 1..MaxServices, empty \in BOOLEAN : AnalyzeWith(svc, empty)

SpecEmbed == InitEmbed /\ [][NextEmbed]_vars

\* ------------------------------------------------------------------------
\* Properties of run_channel_analysis
\* ------------------------------------------------------------------------
AfterVpd == pc \notin {"start", "vpd"}
AfterBaseline == pc \notin {"start", "vpd", "features", "sort"}
AfterRelPerf == AfterBaseline /\ pc # "relperf"
RunEnded == pc \in {"raised", "returned"}

WindowCount == Min2(baseline_window, Len(rows))
WindowIds == {window[i] : i \in 1..Len(window)}
ZeroViewsInWindow == {id \in WindowIds : details[id].views = 0}
Vpd(id) == details[id].views_per_day

\* C1 (as stated): for a non-empty record set the baseline is > 0 whenever
\* at least one record has views > 0.
C1_BaselinePositiveIfAnyViews ==
    (AfterBaseline /\ rows # <<>>
        /\ \E id \in DOMAIN details : details[id].views > 0)
        => RatPos(baseline)

\* C1 (amended): for a non-empty record set the baseline is > 0 exactly when
\* at most floor(count/2) of the count records of the baseline window have
\* views = 0; in particular whenever every record of the window has views.
C1_BaselinePositiveIffFewZeros ==
    (AfterBaseline /\ rows # <<>>)
        => /\ RatPos(baseline)
                <=> Cardinality(ZeroViewsInWindow) <= Len(window) \div 2
           /\ (\A id \in WindowIds : details[id].views > 0)
                => RatPos(baseline)

C1_Witness ==
    /\ AfterBaseline
    /\ ZeroViewsInWindow # {}
    /\ Len(window) >= 3
    /\ RatPos(baseline)

\* C2: the baseline is the element at index floor(count/2) of the ascending
\* views_per_day values of the count = min(baseline_window, n) most recent
\* records, and 1.0 for an empty window: with one record it is that record's
\* value, with two the larger one, and for values 10, 20, 30 it is 20.
C2_MedianByIndex ==
    AfterBaseline =>
        LET cnt == Len(window)
            W == 1..cnt
            below == {i \in W : RatLt(Vpd(window[i]), baseline)}
            upto == {i \in W : RatLe(Vpd(window[i]), baseline)}
        IN  /\ cnt = WindowCount
            /\ Cardinality(WindowIds) = cnt
            /\ WindowIds \subseteq DOMAIN details
            /\ \A i, j \in W :
                   i < j => details[window[i]].published_at
                                >= details[window[j]].published_at
            /\ \A id \in DOMAIN details \ WindowIds : \A w \in WindowIds :
                   details[id].published_at <= details[w].published_at
            /\ cnt = 0 => baseline = RatOne
            /\ cnt > 0 =>
                   /\ \E i \in W : baseline = Vpd(window[i])
                   /\ Cardinality(below) <= cnt \div 2
                   /\ Cardinality(upto) > cnt \div 2
            /\ cnt = 1 => baseline = Vpd(window[1])
            /\ cnt = 2 => \A i \in W : RatLe(Vpd(window[i]), baseline)
            /\ (cnt = 3 /\ \A v \in {10, 20, 30} :
                    \E i \in W : RatEq(Vpd(window[i]), Rat(v, 1)))
                   => RatEq(baseline, Rat(20, 1))

C2_Witness ==
    /\ AfterBaseline
    /\ Len(window) = 3
    /\ \A v \in {10, 20, 30} :
           \E i \in 1..3 : RatEq(Vpd(window[i]), Rat(v, 1))
    /\ RatEq(baseline, Rat(20, 1))

\* C3: after normalization every record, inside or outside the baseline
\* window, has relative_performance = views_per_day / baseline for the one
\* baseline of the run, and 0.0 when the baseline is 0.
C3_RelativePerformance ==
    AfterRelPerf =>
        \A id \in DOMAIN details :
            LET rp == details[id].relative_performance
                vpd == details[id].views_per_day
            IN  /\ RatIsZero(baseline) => rp = RatZero
                /\ ~RatIsZero(baseline) =>
                       rp[1] * baseline[1] * vpd[2]
                           = vpd[1] * rp[2] * baseline[2]

C3_Witness ==
    /\ AfterRelPerf
    /\ \E id \in DOMAIN details \ WindowIds :
           RatPos(details[id].relative_performance)
    /\ RatPos(baseline)
    /\ ~RatEq(baseline, RatOne)

C3_WitnessZeroBaseline ==
    /\ AfterRelPerf
    /\ RatIsZero(baseline)
    /\ \E id \in DOMAIN details : details[id].views > 0

\* C4: views_per_day = views / clamp(age_days, 1, 14) with
\* age_days = max(whole days between now and the publish time, 1).
C4_ViewsPerDayCapped ==
    AfterVpd =>
        \A id \in DOMAIN details :
            LET age_days == Max2(WholeDays(details[id].published_at), 1)
            IN  RatEq(details[id].views_per_day,
                      Rat(details[id].views, Max2(1, Min2(age_days, 14))))

\* C5: when the fetched record set is empty the run yields a result with
\* baseline 1.0, videos_analyzed 0 and empty trends, drivers and topics.
C5_EmptyInputResult ==
    (RunEnded /\ rows = <<>>) =>
        /\ pc = "returned"
        /\ resp.kpis.baseline_views_per_day = RatOne
        /\ resp.kpis.videos_analyzed = 0
        /\ resp.trends = <<>>
        /\ resp.drivers = <<>>
        /\ resp.topics = <<>>

\* C6: once the records are fetched no later step of the run ends in an
\* error: the run reaches the construction and return of the response.
C6_NoErrorAfterFetch == pc # "raised"

\* C7: before the result is assembled the run has invoked the Driver Model
\* and then the Topic Engine, and the result carries the Driver Model's
\* drivers, recommendations and warnings.
C7_ModelThenTopicsInvoked ==
    pc \in {"construct", "raised", "returned"} =>
        /\ \E i, j \in 1..Len(calls) :
               /\ i < j
               /\ calls[i] = "ModelService.train_and_explain"
               /\ calls[j] = "TopicService.analyze"
        /\ mpc = "returned"
        /\ drivers = mout.drivers
        /\ recs = mout.recommendations

\* ------------------------------------------------------------------------
\* Properties of train_and_explain
\* ------------------------------------------------------------------------
CallEnded == mpc \in {"returned", "raised"}

ValidRows == {i \in 1..Len(mrows) : mrows[i].rp = "pos"}
FirstValid == CHOOSE i \in ValidRows : \A j \in ValidRows : i <= j
FewValidRows == Cardinality(ValidRows) < 5
FeatureAbsentSomewhere == \E i \in 1..Len(mrows) : mrows[i].has # FeatureSet
FeatureAbsentEverywhere ==
    \E feat \in FeatureSet : \A i \in 1..Len(mrows) : feat \notin mrows[i].has
\* |y - y0| <= atol + rtol * |y0|, multiplied out; the first conjunct keeps
\* the product within TLC's integers (|y0| < 2^31)
NearZeroVariance ==
    /\ ValidRows # {}
    /\ \A i \in ValidRows :
           LET excess == Abs(mrows[i].ln - mrows[FirstValid].ln) - AtolUnits
           IN  /\ excess <= 21474
               /\ excess * RtolInv <= Abs(mrows[FirstValid].ln)
AllRowsFull == \A i \in 1..Len(mrows) : mrows[i].has = FeatureSet
SameTarget ==
    /\ mrows # <<>>
    /\ \A i \in 1..Len(mrows) :
           mrows[i].rp = "pos" /\ mrows[i].ln = mrows[1].ln

InSeq(x, s) == \E i \in 1..Len(s) : s[i] = x

EmptyWithWarning ==
    /\ mout.status = "returned"
    /\ mout.drivers = <<>>
    /\ mout.recommendations = <<>>
    /\ mout.warnings # <<>>

\* C8: on every guard condition (fewer than 5 rows with
\* relative_performance > 0, a required feature absent from all or from some
\* rows, a log target of near-zero variance) train_and_explain does not
\* raise: it returns no drivers, no recommendations and a warning.
C8_GuardsReturnEmptyResult ==
    (CallEnded
        /\ (FewValidRows \/ FeatureAbsentSomewhere \/ NearZeroVariance))
        => EmptyWithWarning

\* C9 (as stated): when every row has the same positive
\* relative_performance (4 rows all 2.0) the result has no drivers and the
\* near-zero-variance warning.
C9_SameTargetNearZeroWarning ==
    (CallEnded /\ SameTarget /\ AllRowsFull)
        => /\ mout.status = "returned"
           /\ mout.drivers = <<>>
           /\ InSeq("near-zero variance", mout.warnings)

\* C9 (amended): when every row carries all the features and the same
\* positive relative_performance, the result has no drivers; its warnings
\* hold the near-zero-variance warning when there are at least 5 rows, and
\* with 1 to 4 rows the not-enough-valid-rows warning instead.
C9_SameTargetEmptyDrivers ==
    (CallEnded /\ SameTarget /\ AllRowsFull)
        => /\ mout.status = "returned"
           /\ mout.drivers = <<>>
           /\ Len(mrows) >= 5 =>
                  InSeq("near-zero variance", mout.warnings)
           /\ Len(mrows) < 5 =>
                  /\ InSeq("not enough valid rows", mout.warnings)
                  /\ ~InSeq("near-zero variance", mout.warnings)

C9_Witness ==
    /\ mpc = "returned"
    /\ SameTarget
    /\ AllRowsFull
    /\ Len(mrows) >= 5
    /\ mrows[1].ln = Ln2
    /\ InSeq("near-zero variance", mout.warnings)

C9_WitnessFourRows ==
    /\ mpc = "returned"
    /\ SameTarget
    /\ AllRowsFull
    /\ Len(mrows) = 4
    /\ mrows[1].ln = Ln2
    /\ mout.warnings = <<"too few videos", "not enough valid rows">>

NoGuardFires ==
    /\ ~FewValidRows
    /\ ~FeatureAbsentEverywhere
    /\ ~NearZeroVariance

DriverFeatures == {mout.drivers[i].feature : i \in 1..Len(mout.drivers)}

\* C10: when no guard fires the returned drivers are 8 of the 11 features,
\* each once, none with a smaller absolute percent effect than a feature
\* left out, in non-increasing order of absolute percent effect, and with
\* direction "increase" exactly when the feature's percent effect (as
\* computed, before it is rounded to 2 decimals) is >= 0.
C10_TopEightDrivers ==
    (mpc = "returned" /\ NoGuardFires) =>
        LET ds == mout.drivers
            eff(i) == fit.effect[ds[i].feature]
        IN  /\ Len(ds) = 8
            /\ Cardinality(DriverFeatures) = 8
            /\ DriverFeatures \subseteq FeatureSet
            /\ \A i, j \in 1..Len(ds) :
                   i < j => /\ Abs(eff(i)) >= Abs(eff(j))
                            /\ Abs(ds[i].effect_percent)
                                   >= Abs(ds[j].effect_percent)
            /\ \A i \in 1..Len(ds) : \A g \in FeatureSet \ DriverFeatures :
                   Abs(eff(i)) >= Abs(fit.effect[g])
            /\ \A i \in 1..Len(ds) :
                   /\ ds[i].direction \in {"increase", "decrease"}
                   /\ ds[i].direction = "increase" <=> eff(i) >= 0
                   /\ ds[i].direction = "increase" => ds[i].effect_percent >= 0
                   /\ ds[i].direction = "decrease" => ds[i].effect_percent <= 0
                   /\ Abs(ds[i].effect_percent - eff(i)) <= 5

C10_Witness ==
    /\ mpc = "returned"
    /\ NoGuardFires
    /\ Len(mout.drivers) = 8
    /\ mout.drivers[1].feature = "emoji_count"
    /\ mout.drivers[1].direction = "decrease"
    /\ \E i \in 1..8 : /\ mout.drivers[i].direction = "increase"
                       /\ mout.drivers[i].feature = "is_weekend"
    /\ \E i \in 1..8 : /\ mout.drivers[i].direction = "decrease"
                       /\ mout.drivers[i].effect_percent = 0
    /\ "has_number" \notin DriverFeatures

\* ------------------------------------------------------------------------
\* Properties of _make_recommendations
\* ------------------------------------------------------------------------
\* ranks of the drivers whose feature has a template
TemplatedRanks == {i \in 1..Len(ranked) : ranked[i].feature \in Templates}
\* the rank of the j-th templated driver
TemplatedRank(j) ==
    CHOOSE i \in TemplatedRanks :
        Cardinality({k \in TemplatedRanks : k < i}) = j - 1
ExpectedLabel ==
    IF ~rec_r2.nan /\ rec_r2.val >= 300 THEN "high"
    ELSE IF ~rec_r2.nan /\ rec_r2.val >= 100 THEN "medium"
    ELSE "low"

\* C11: _make_recommendations returns at most 3 recommendations: the j-th
\* is the one of the j-th ranked driver that has a template, for the first
\* 3 such drivers; all carry the label "high" if mean CV R^2 >= 0.30,
\* "medium" if >= 0.10, else "low"; the generic top-driver recommendation
\* is returned only (and then alone) when no ranked driver has a template.
C11_Recommendations ==
    rpc = "returned" =>
        /\ Len(made) <= 3
        /\ \A j \in 1..Len(made) : made[j].confidence = ExpectedLabel
        /\ TemplatedRanks # {} =>
               /\ Len(made) = Min2(3, Cardinality(TemplatedRanks))
               /\ \A j \in 1..Len(made) :
                      LET d == ranked[TemplatedRank(j)]
                      IN  /\ made[j].title = TemplateTitle(d.feature)
                          /\ made[j].title # "Focus on top driver"
                          /\ made[j].expected_impact_percent
                                 = d.effect_percent
               /\ \A i, j \in 1..Len(made) :
                      i # j => made[i].title # made[j].title
        /\ (TemplatedRanks = {} /\ ranked # <<>>) =>
               /\ Len(made) = 1
               /\ made[1].title = "Focus on top driver"
               /\ made[1].expected_impact_percent = ranked[1].effect_percent
        /\ ranked = <<>> => made = <<>>

\* four templated drivers, the first after a driver without a template
C11_Witness ==
    /\ rpc = "returned"
    /\ Cardinality(TemplatedRanks) = 4
    /\ Len(made) = 3
    /\ rec_r2 = R2(299)
    /\ made[1].confidence = "medium"

C11_WitnessGeneric ==
    /\ rpc = "returned"
    /\ Len(ranked) = 2
    /\ TemplatedRanks = {}
    /\ rec_r2 = R2NaN
    /\ Len(made) = 1

\* ------------------------------------------------------------------------
\* Recommendations and returned drivers of train_and_explain
\* ------------------------------------------------------------------------
\* ranks of the returned drivers that recommendation r refers to: the driver
\* whose template gives r its title, or any driver for the generic title
RanksReferredTo(r) ==
    {i \in 1..Len(mout.drivers) :
        \/ /\ mout.drivers[i].feature \in Templates
           /\ TemplateTitle(mout.drivers[i].feature) = r.title
        \/ /\ r.title = "Focus on top driver"
           /\ i = 1}

\* C21: in every ModelOutput of train_and_explain each recommendation
\* refers to exactly one of the returned drivers, its
\* expected_impact_percent is that driver's effect_percent, the
\* recommendations follow the drivers' order, and the recommendations are
\* empty exactly when the drivers are empty.
C21_RecommendationsAmongDrivers ==
    mpc = "returned" =>
        LET given == mout.recommendations
        IN  /\ \A j \in 1..Len(given) :
                   /\ Cardinality(RanksReferredTo(given[j])) = 1
                   /\ \A i \in RanksReferredTo(given[j]) :
                          given[j].expected_impact_percent
                              = mout.drivers[i].effect_percent
            /\ \A j, k \in 1..Len(given) :
                   j < k => \A a \in RanksReferredTo(given[j]) :
                                \A b \in RanksReferredTo(given[k]) : a < b
            /\ (given = <<>>) <=> (mout.drivers = <<>>)

\* the two drivers without a template rank first and second, so that the
\* three recommendations refer to the drivers ranked third to fifth
C21_Witness ==
    /\ mpc = "returned"
    /\ Len(mout.drivers) = 8
    /\ mout.drivers[1].feature = "emoji_count"
    /\ mout.drivers[2].feature = "publish_day_of_week"
    /\ Len(mout.recommendations) = 3
    /\ \A j \in 1..3 : RanksReferredTo(mout.recommendations[j]) = {j + 2}
    /\ mout.recommendations[3].expected_impact_percent
           = mout.drivers[5].effect_percent

\* a guard fired: neither drivers nor recommendations
C21_WitnessEmpty ==
    /\ mpc = "returned"
    /\ mout.drivers = <<>>
    /\ mout.recommendations = <<>>

\* ------------------------------------------------------------------------
\* Properties of TopicService
\* ------------------------------------------------------------------------
Analyzed == tpc = "returned" /\ trows # <<>>
Points == 1..Len(raw_labels)
NoisePoints == {i \in Points : raw_labels[i] = NoiseLabel}
TopicIdSet == {topic_ids[i] : i \in Points}

\* C12: for a raw labelling (cluster labels >= 0, noise -1) _cluster gives
\* one id per point; the ids are exactly 0 .. m-1; among clustered points
\* the ids follow the ascending order of the raw labels and two points
\* share an id iff they shared a raw label; each noise point has an id no
\* other point has; no id is -1.
C12_DenseTopicIds ==
    Analyzed =>
        /\ Len(topic_ids) = Len(raw_labels)
        /\ TopicIdSet = 0..(Cardinality(TopicIdSet) - 1)
        /\ MiscId \notin TopicIdSet
        /\ \A i, j \in Points \ NoisePoints :
               /\ raw_labels[i] < raw_labels[j] => topic_ids[i] < topic_ids[j]
               /\ raw_labels[i] = raw_labels[j] <=> topic_ids[i] = topic_ids[j]
        /\ \A i \in NoisePoints : \A j \in Points :
               i # j => topic_ids[i] # topic_ids[j]

\* two noise points around two clusters whose raw labels leave a gap
C12_Witness ==
    /\ Analyzed
    /\ Cardinality(NoisePoints) >= 2
    /\ \E i, j \in Points \ NoisePoints : raw_labels[i] # raw_labels[j]
    /\ raw_labels[1] = NoiseLabel
    /\ Cardinality(TopicIdSet) = 4

Assignments == analysis.assignments
Topics == analysis.topics
TopicIndex == 1..Len(Topics)

\* C13: the returned TopicAnalysis has exactly one TopicAssignment per
\* input video, and the topic_id and topic_label of each assignment are
\* the id and label of one TopicSummary of the returned topics, also for a
\* video whose topic went into the merged bucket.
C13_AssignmentsReferToTopics ==
    Analyzed =>
        /\ Len(Assignments) = Len(trows)
        /\ \A i \in 1..Len(trows) :
               /\ Assignments[i].video_id = trows[i].video_id
               /\ \E j \in TopicIndex :
                      /\ Topics[j].topic_id = Assignments[i].topic_id
                      /\ Topics[j].label = Assignments[i].topic_label

VideosOf(tid) == {i \in Points : topic_ids[i] = tid}
MergedVideos == {i \in Points : Cardinality(VideosOf(topic_ids[i])) < 2}

\* C14: for every returned TopicSummary, fatigue is true iff
\* momentum < -0.15 and n_videos >= 4: a momentum of exactly -0.15 gives
\* false, and n_videos = 4 with a momentum of -0.16 gives true.
C14_FatigueRule ==
    Analyzed =>
        \A j \in TopicIndex :
            LET t == Topics[j]
                mo == t.momentum
            IN  /\ t.fatigue <=> (100 * mo[1] < -15 * 100 * mo[2]
                                     /\ t.n_videos >= 4)
                /\ 100 * mo[1] = -15 * 100 * mo[2] => ~t.fatigue
                /\ (t.n_videos = 4 /\ 100 * mo[1] = -16 * 100 * mo[2])
                       => t.fatigue

\* a topic of 4 videos with a momentum of exactly -0.15
C14_Witness ==
    /\ Analyzed
    /\ \E j \in TopicIndex :
           /\ Topics[j].n_videos = 4
           /\ RatEq(Topics[j].momentum, Rat(-15, 1))
           /\ ~Topics[j].fatigue

\* a topic of 4 videos with a momentum of -0.16
C14_WitnessFatigued ==
    /\ Analyzed
    /\ \E j \in TopicIndex :
           /\ Topics[j].n_videos = 4
           /\ RatEq(Topics[j].momentum, Rat(-16, 1))
           /\ Topics[j].fatigue

\* a topic of 3 videos whose momentum is below -0.15
C14_WitnessTooFew ==
    /\ Analyzed
    /\ \E j \in TopicIndex :
           /\ Topics[j].n_videos = 3
           /\ RatLt(Topics[j].momentum, Rat(-15, 1))
           /\ ~Topics[j].fatigue

\* the videos of topic tid have distinct publish times and a
\* relative_performance that rises strictly with the publish time
StrictlyRising(tid) ==
    \A u, v \in VideosOf(tid) :
        /\ u # v => trows[u].published_at # trows[v].published_at
        /\ trows[u].published_at < trows[v].published_at
               => trows[u].relative_performance
                      < trows[v].relative_performance

OlderThan(tid, v) ==
    {u \in VideosOf(tid) : trows[u].published_at < trows[v].published_at}
NewerThan(tid, v) ==
    {u \in VideosOf(tid) : trows[u].published_at > trows[v].published_at}

RECURSIVE SumRel(_)
SumRel(S) ==
    IF S = {} THEN 0
    ELSE LET v == CHOOSE x \in S : TRUE
         IN  trows[v].relative_performance + SumRel(S \ {v})

\* C15: for a topic of n >= 2 videos whose relative_performance rises
\* strictly in publish-time order, the summary has momentum > 0, where the
\* momentum is the mean of the last k minus the mean of the first k values
\* with k = min(3, max(1, n div 2)), trend_slope > 0 and fatigue = false.
C15_RisingTopic ==
    Analyzed =>
        \A tid \in TopicIdSet :
            (Cardinality(VideosOf(tid)) >= 2 /\ StrictlyRising(tid)) =>
                LET n == Cardinality(VideosOf(tid))
                    half == n \div 2
                    k == IF half < 1 THEN 1 ELSE IF half > 3 THEN 3 ELSE half
                    first == {v \in VideosOf(tid) :
                                 Cardinality(OlderThan(tid, v)) < k}
                    last == {v \in VideosOf(tid) :
                                Cardinality(NewerThan(tid, v)) < k}
                IN  \E j \in TopicIndex :
                        /\ Topics[j].topic_id = tid
                        /\ Topics[j].n_videos = n
                        /\ RatPos(Topics[j].momentum)
                        /\ RatEq(Topics[j].momentum,
                                 Rat(SumRel(last) - SumRel(first), k))
                        /\ RatPos(Topics[j].trend_slope)
                        /\ ~Topics[j].fatigue

\* one cluster of 5 videos, handed over newest first
C15_Witness ==
    /\ Analyzed
    /\ Len(trows) = 5
    /\ TopicIdSet = {0}
    /\ StrictlyRising(0)
    /\ trows[1].published_at > trows[5].published_at
    /\ Len(Topics) = 1
    /\ RatEq(Topics[1].momentum, Rat(15, 1))

\* C20: the returned topics account for every video exactly once: the
\* n_videos of the returned topics, the merged topic with id -1 included,
\* add up to the number of rows; no returned topic with id >= 0 has fewer
\* than 2 videos; at most one returned topic has id -1.
C20_TopicsAccountForVideos ==
    Analyzed =>
        /\ IntSum([j \in TopicIndex |-> Topics[j].n_videos]) = Len(trows)
        /\ \A j \in TopicIndex :
               Topics[j].topic_id >= 0 =>
                   /\ Topics[j].n_videos >= 2
                   /\ Topics[j].n_videos
                          = Cardinality(VideosOf(Topics[j].topic_id))
        /\ Cardinality({j \in TopicIndex : Topics[j].topic_id = MiscId}) <= 1
        /\ \A j \in TopicIndex :
               Topics[j].topic_id = MiscId =>
                   Topics[j].n_videos = Cardinality(MergedVideos)
        /\ \A i, j \in TopicIndex :
               i # j => Topics[i].topic_id # Topics[j].topic_id

\* two topics that stay and one video that is merged
C20_Witness ==
    /\ Analyzed
    /\ Len(trows) = 5
    /\ Cardinality(MergedVideos) = 1
    /\ Len(Topics) = 3
    /\ \E j \in TopicIndex :
           Topics[j].topic_id = MiscId /\ Topics[j].n_videos = 1

\* two noise points merged next to one cluster
C20_WitnessTwoMerged ==
    /\ Analyzed
    /\ Cardinality(MergedVideos) = 2
    /\ Len(Topics) = 2
    /\ \E j \in TopicIndex :
           Topics[j].topic_id = MiscId /\ Topics[j].n_videos = 2

\* ------------------------------------------------------------------------
\* Properties of numeric_rates
\* ------------------------------------------------------------------------
RatesOut == {rate_out.engagement_rate, rate_out.likes_rate,
             rate_out.comments_rate}
Clamped(x) == IF x < 0 THEN 0 ELSE x
\* rate is the quotient num / v to 8 decimals (v > 0)
IsRateOf(rate, num, v) ==
    LET err == rate * v - num * RateUnit
    IN  2 * err <= v /\ 2 * err >= -v

\* C16 (as stated): for all integer views, likes, comments the three rates
\* lie in [0, 1] when views > 0 and are all 0.0 when views <= 0.
C16_RatesInUnitInterval ==
    fpc = "returned" =>
        /\ rate_in.views > 0 => \A x \in RatesOut : 0 <= x /\ x <= RateUnit
        /\ rate_in.views <= 0 => RatesOut = {0}

\* C16 (amended): the rates are all 0.0 when views <= 0; when views > 0
\* each rate is its quotient after clamping negative inputs to 0, to 8
\* decimals: it is >= 0, it is <= 1 when its numerator is <= views and it
\* is >= 1 when its numerator is >= views.
C16_RatesAreClampedQuotients ==
    fpc = "returned" =>
        LET v == rate_in.views
            l == Clamped(rate_in.likes)
            c == Clamped(rate_in.comments)
            Bounded(rate, num) ==
                /\ rate >= 0
                /\ IsRateOf(rate, num, v)
                /\ num <= v => rate <= RateUnit
                /\ num >= v => rate >= RateUnit
        IN  /\ v <= 0 => RatesOut = {0}
            /\ v > 0 =>
                   /\ Bounded(rate_out.engagement_rate, l + c)
                   /\ Bounded(rate_out.likes_rate, l)
                   /\ Bounded(rate_out.comments_rate, c)

\* more likes than views, and a negative comment count
C16_Witness ==
    /\ fpc = "returned"
    /\ rate_in.views = 3
    /\ rate_in.likes = 4
    /\ rate_in.comments = -1
    /\ rate_out.likes_rate = 133333333
    /\ rate_out.engagement_rate = 133333333
    /\ rate_out.comments_rate = 0

\* ------------------------------------------------------------------------
\* Properties of the publish-time features
\* ------------------------------------------------------------------------
\* C17: the publish-time features are those of the instant in UTC: the
\* hour (0-23), the day of the week (Monday = 0 .. Sunday = 6) and
\* is_weekend (day of week >= 5) do not depend on the offset the
\* timestamp carries.
C17_TimeFeaturesInUtc ==
    dpc = "returned" =>
        LET utc_day == (ts_in.utc \div HoursPerDay) % 7
        IN  /\ ts_out.publish_hour = ts_in.utc % HoursPerDay
            /\ ts_out.publish_day_of_week = utc_day
            /\ ts_out.is_weekend = (utc_day >= 5)

\* ------------------------------------------------------------------------
\* Properties of the video-details cache
\* ------------------------------------------------------------------------
CacheHit == ncalls > 0 /\ last_result.status = "returned"
                /\ last_result.source = "cache"

\* C18: with caching enabled, a call for id list L returns cached details
\* only if an earlier call for the same L stored them: the returned dict
\* holds no details fetched for another id list.
C18_CacheKeyedByIdList ==
    CacheHit =>
        /\ last_result.stored_for = last_call.video_ids
        /\ last_result.parsed \subseteq Parsed(last_call.video_ids)

\* ------------------------------------------------------------------------
\* Properties of the embedding model
\* ------------------------------------------------------------------------
\* C19: in one process the embedding model is loaded at most once, before
\* its first use, and every _embed call uses that one loaded instance.
C19_ModelLoadedOnce ==
    /\ loads <= 1
    /\ \A i \in 1..Len(embeds) :
           /\ embeds[i].model \in 1..loads
           /\ embeds[i].model = embeds[1].model

====
